---- MODULE Spec2Model ----
(***************************************************************************)
(* A model of the market-data gateway: SimpleTTLCache (caching.py),        *)
(* RateLimiter (rate_limiter.py) and MarketDataProvider (data_provider.py) *)
(* as driven by the request handlers of main.py.                           *)
(*                                                                         *)
(* Time is the value time.time() returns, counted in ticks; it never       *)
(* decreases.  Token counts are the code's floats taken as exact           *)
(* rationals and stored multiplied by `period`, so that with whole ticks   *)
(* every token count is a whole number: one token is `period` units, a     *)
(* full bucket is requests * period units and one tick refills `requests`  *)
(* units.                                                                  *)
(***************************************************************************)
EXTENDS Integers, Sequences, FiniteSets, TLC

\* ---------------------------------------------------------------- bounds
MaxTime == 2        \* the clock stops advancing here
MaxGets == 4        \* cache lookups counted by the hit and miss counters
MaxClock == 4       \* the clock's last value when only the rate limiter runs
MaxCalls == 3       \* handler calls made in one run of the service
MaxStreamCalls == 2 \* get_ticker calls made in one run with WebSocket connections

\* ------------------------------------------------------- input domains
Keys == {"A", "B", "C"}
Values == {"1", "2", "3"}
TTLs == {0, 1}
MaxSizes == {1, 2}
None == "None"
Hosts == {"x"}                                 \* request.client.host
NoClient == "NoClient"                         \* request.client is None
Limits == {<<1, 2>>, <<2, 2>>, <<2, 3>>}       \* <<requests, period>>
Skews == {0, 1}     \* ticks between two successive reads of the clock
DefaultMaxSize == 1000                         \* SimpleTTLCache(max_size=1000)
ExchangeIds == {"binance", "nope", "__name__"} \* the exchange_id of a request
KnownExchanges == {"binance", "gateio"}        \* the ids ccxt has an exchange class for
CcxtAttributes == KnownExchanges \cup {"__name__"}   \* hasattr(ccxt, exchange_id)
Symbols == {"BTC/USDT"}                        \* the symbol of a request
KeyExchangeIds == {"gateio", "gateio_BTC"}     \* exchange ids, with and without "_"
KeySymbols == {"BTC_USDT", "USDT"}             \* symbols, with and without "_"
ServiceLimits == {<<1, 2>>, <<2, 2>>}          \* <<requests, period>> of the service
ServiceTTLs == {1}                             \* the service's cache_ttl_seconds
Slots == {1, 2}     \* places for the handler calls suspended at an await
Conns == {1, 2}     \* WebSocket connections
PollIntervals == {2}                           \* the poll_interval of a connection
StreamExchangeIds == {"binance"}               \* the exchange_id of a connection
\* how an awaited upstream fetch ends
FetchOutcomes ==
    {"data", "invalid", "BadSymbol", "NetworkError", "ExchangeError", "Exception",
     "CancelledError"}
\* how an awaited exchange.close() ends
CloseOutcomes == {"closed", "Exception", "CancelledError"}
\* how get_historical's tests of exchange.has and exchange.timeframes end
CheckOutcomes == {"has_raises", "unsupported", "timeframes_raises", "bad_timeframe", "supported"}

VARIABLES
    cache,      \* SimpleTTLCache._cache: the dict, as the sequence of its
                \* items [k, v, ts] in the dict's (insertion) order
    hits,       \* SimpleTTLCache._hits
    misses,     \* SimpleTTLCache._misses
    gets,       \* the number of get calls since construction or the last clear
    scenario,   \* how many operations of Scenario the cache has been through,
                \* if it has been through these and no other
    ttl,        \* SimpleTTLCache.ttl
    max_size,   \* SimpleTTLCache.max_size
    now,        \* the value of time.time()
    last,       \* the cache operation the last step made, and what it returned
    buckets,    \* RateLimiter._buckets: client id -> [tokens, last_update]
    requests,   \* RateLimiter.requests
    period,     \* RateLimiter.period
    rl,         \* the check_rate_limit call the last step made, and its outcome
    audit,      \* per stored bucket: when it was created, how many requests
                \* it has allowed since and, kept while the limiter is driven
                \* on its own, when it allowed those of the last period
    calls,      \* the handler calls suspended at an await: where, and with what
    ended,      \* the handler call that ended in the last step, and how
    started,    \* the number of handler calls made so far
    ws,         \* the WebSocket connections, in the order they were accepted:
                \* where each one's handler is, and how many get_ticker calls
                \* it has made and messages of each kind it has sent
    sent        \* the message the last step sent on a WebSocket connection

cacheVars == <<cache, hits, misses, gets, scenario, ttl, max_size, last>>
limiterVars == <<buckets, requests, period, rl, audit>>
vars == <<cache, hits, misses, gets, scenario, ttl, max_size, now, last, buckets, requests, period, rl, audit,
          calls, ended, started, ws, sent>>
callVars == <<calls, ended, started, ws, sent>>

\* ------------------------------------------------- SimpleTTLCache (dict)
Range(s) == {s[i] : i \in 1..Len(s)}

\* key in self._cache
HasKey(c, k) == \E i \in 1..Len(c) : c[i].k = k

\* self._cache[key]
Entry(c, k) == c[CHOOSE i \in 1..Len(c) : c[i].k = k]

DelKeyAndExpired(c, k) == SelectSeq(c, LAMBDA e : e.k # k /\ now - e.ts <= ttl)

\* del self._cache[key]
DelKey(c, k) == SelectSeq(c, LAMBDA e : e.k # k)

PutKeyIfAbsent(c, k, v, t) ==
    IF HasKey(c, k) THEN c ELSE Append(c, [k |-> k, v |-> v, ts |-> t])

\* self._cache[key] = (value, t): a key already in the dict keeps its place
PutKey(c, k, v, t) ==
    IF HasKey(c, k)
    THEN [i \in 1..Len(c) |-> IF c[i].k = k THEN [k |-> k, v |-> v, ts |-> t] ELSE c[i]]
    ELSE Append(c, [k |-> k, v |-> v, ts |-> t])

OldestKeyNewest(c) ==
    c[CHOOSE i \in 1..Len(c) :
        /\ \A j \in 1..Len(c) : c[j].ts <= c[i].ts
        /\ \A j \in 1..(i - 1) : c[j].ts < c[i].ts].k

\* min(self._cache.keys(), key=lambda k: self._cache[k][1]): the first key, in
\* the dict's order, among those with the least timestamp
OldestKey(c) ==
    c[CHOOSE i \in 1..Len(c) :
        /\ \A j \in 1..Len(c) : c[j].ts >= c[i].ts
        /\ \A j \in 1..(i - 1) : c[j].ts > c[i].ts].k

\* SimpleTTLCache._evict_oldest
EvictOldest(c) == IF c = <<>> THEN c ELSE DelKey(c, OldestKey(c))

CacheFullStrict(c, maxsz) == Len(c) > maxsz

\* len(self._cache) >= self.max_size
CacheFull(c, maxsz) == Len(c) >= maxsz

\* SimpleTTLCache.set, on the dict
CacheSet(c, maxsz, k, v, t) ==
    PutKey(IF CacheFull(c, maxsz) THEN EvictOldest(c) ELSE c, k, v, t)

ExpiredAtTTL(e, t, life) == (t - e.ts) >= life

\* (time.time() - timestamp) > self.ttl
Expired(e, t, life) == (t - e.ts) > life

GetHitWhateverAge(c, k, t, life) == HasKey(c, k)

\* SimpleTTLCache.get: whether it returns the value
GetHit(c, k, t, life) == HasKey(c, k) /\ ~Expired(Entry(c, k), t, life)

GetValueExpiredToo(c, k, t, life) == IF HasKey(c, k) THEN Entry(c, k).v ELSE None

\* SimpleTTLCache.get: what it returns
GetValue(c, k, t, life) == IF GetHit(c, k, t, life) THEN Entry(c, k).v ELSE None

GetCacheKeepsExpired(c, k, t, life) == c

\* SimpleTTLCache.get: the dict it leaves
GetCache(c, k, t, life) ==
    IF HasKey(c, k) /\ Expired(Entry(c, k), t, life) THEN DelKey(c, k) ELSE c

EmptiedOfExpired(c) == SelectSeq(c, LAMBDA e : ~Expired(e, now, ttl))

\* self._cache.clear()
Emptied(c) == <<>>

\* SimpleTTLCache.size
Size(c) == Len(c)

\* two digits
Pad2(n) == IF n < 10 THEN "0" \o ToString(n) ELSE ToString(n)

HitRateOneDecimal(h, m) ==
    IF h + m > 0
    THEN ToString(((h * 1000) \div (h + m)) \div 10) \o "." \o
         ToString(((h * 1000) \div (h + m)) % 10) \o "%"
    ELSE "0.0%"

\* f"{hit_rate:.2f}%" with hit_rate = hits / total_requests * 100, or 0
\* when there were no requests: the rate rounded to hundredths of a percent
HitRate(h, m) ==
    LET total_requests == h + m
        hundredths == IF total_requests > 0
                      THEN (2 * 10000 * h + total_requests) \div (2 * total_requests)
                      ELSE 0
    IN  ToString(hundredths \div 100) \o "." \o Pad2(hundredths % 100) \o "%"

\* SimpleTTLCache.stats
Stats ==
    [size |-> Size(cache), max_size |-> max_size, hits |-> hits, misses |-> misses,
     hit_rate |-> HitRate(hits, misses), ttl |-> ttl]

\* the operations of the scenario, in order, on SimpleTTLCache(ttl_seconds=1,
\* max_size=2)
Scenario ==
    << [op |-> "set", k |-> "A", v |-> "1"],
       [op |-> "set", k |-> "B", v |-> "2"],
       [op |-> "get", k |-> "A", v |-> None],
       [op |-> "set", k |-> "C", v |-> "3"],
       [op |-> "get", k |-> "A", v |-> None],
       [op |-> "get", k |-> "B", v |-> None],
       [op |-> "get", k |-> "C", v |-> None] >>

\* the cache has been through something else than the scenario
Off == Len(Scenario) + 1

\* the scenario's progress when the cache is asked for op(k, v): one more
\* operation if it is the scenario's next one, on a cache made with ttl 1 and
\* max_size 2
Follows(op, k, v) ==
    IF /\ scenario < Len(Scenario)
       /\ ttl = 1 /\ max_size = 2
       /\ Scenario[scenario + 1] = [op |-> op, k |-> k, v |-> v]
    THEN scenario + 1
    ELSE Off

\* ------------------------------------------------ SimpleTTLCache actions
NoOp == [op |-> "init", k |-> None, v |-> None, ok |-> TRUE, evicted |-> None]

\* SimpleTTLCache.__init__(ttl_seconds, max_size)
CacheInit(ttls, sizes) ==
    /\ cache = <<>>
    /\ hits = 0
    /\ misses = 0
    /\ gets = 0
    /\ scenario = 0
    /\ ttl \in ttls
    /\ max_size \in sizes
    /\ last = NoOp

\* SimpleTTLCache.set(k, v)
Set(k, v) ==
    /\ cache' = CacheSet(cache, max_size, k, v, now)
    /\ last' = [op |-> "set", k |-> k, v |-> v, ok |-> TRUE,
                evicted |-> IF CacheFull(cache, max_size) /\ cache # <<>>
                            THEN OldestKey(cache) ELSE None]
    /\ scenario' = Follows("set", k, v)
    /\ UNCHANGED <<hits, misses, gets, ttl, max_size, now, limiterVars, callVars>>

\* SimpleTTLCache.get(k); `evicted` is k when the get removed k's expired
\* entry
Get(k) ==
    /\ hits + misses < MaxGets
    /\ cache' = GetCache(cache, k, now, ttl)
    /\ hits' = IF GetHit(cache, k, now, ttl) THEN hits + 1 ELSE hits
    /\ misses' = IF GetHit(cache, k, now, ttl) THEN misses ELSE misses + 1
    /\ gets' = gets + 1
    /\ scenario' = Follows("get", k, None)
    /\ last' = [op |-> "get", k |-> k, v |-> GetValue(cache, k, now, ttl),
                ok |-> GetHit(cache, k, now, ttl),
                evicted |-> IF HasKey(cache, k) /\ Expired(Entry(cache, k), now, ttl)
                            THEN k ELSE None]
    /\ UNCHANGED <<ttl, max_size, now, limiterVars, callVars>>

\* SimpleTTLCache.delete(k)
Delete(k) ==
    /\ cache' = DelKey(cache, k)
    /\ last' = [op |-> "delete", k |-> k, v |-> None, ok |-> HasKey(cache, k),
                evicted |-> None]
    /\ scenario' = Off
    /\ UNCHANGED <<hits, misses, gets, ttl, max_size, now, limiterVars, callVars>>

\* SimpleTTLCache.clear(); `ok` tells whether entries and counts were there
\* to clear
Clear ==
    /\ cache' = Emptied(cache)
    /\ hits' = 0
    /\ misses' = 0
    /\ gets' = 0
    /\ scenario' = Off
    /\ last' = [op |-> "clear", k |-> None, v |-> None,
                ok |-> cache # <<>> /\ hits > 0 /\ misses > 0, evicted |-> None]
    /\ UNCHANGED <<ttl, max_size, now, limiterVars, callVars>>

\* ------------------------------------------------------------ RateLimiter
Min(a, b) == IF a <= b THEN a ELSE b

\* request.client.host if request.client else "unknown"
ClientId(h) == IF h = NoClient THEN "unknown" ELSE h

ClientIds == {ClientId(h) : h \in Hosts \cup {NoClient}}

\* a full bucket, in units of 1/period token
Capacity == requests * period

NewTokensUncapped(tokens, time_passed) == tokens + time_passed * requests

NewTokensPeriodForgotten(tokens, time_passed) == Min(Capacity, tokens + time_passed * Capacity)

NewTokensNoRefill(tokens, time_passed) == Min(Capacity, tokens)

\* min(self.requests, tokens + (time_passed / self.period) * self.requests),
\* in units of 1/period token
NewTokens(tokens, time_passed) == Min(Capacity, tokens + time_passed * requests)

\* new_tokens < 1, in units of 1/period token
Limited(new_tokens) == new_tokens < period

\* self._buckets[client_id]: the defaultdict makes a missing bucket, full, with
\* the time its factory reads, `d` after the caller read current_time
Bucket(c, d) ==
    IF c \in DOMAIN buckets THEN buckets[c]
    ELSE [tokens |-> Capacity, last_update |-> now + d]

\* d[c] = b
Store(f, c, b) == [x \in DOMAIN f \cup {c} |-> IF x = c THEN b ELSE f[x]]

\* d.pop(c, None)
Drop(f, c) == [x \in DOMAIN f \ {c} |-> f[x]]

Empty == [x \in {} |-> None]

\* no check_rate_limit call
NoCheck == [client |-> None, allowed |-> TRUE, status |-> "none", retry_after |-> None]

\* RateLimiter.__init__(requests, period)
LimiterInit(limits) ==
    /\ buckets = Empty
    /\ \E lim \in limits : requests = lim[1] /\ period = lim[2]
    /\ rl = NoCheck
    /\ audit = Empty

ConsumeNothing(new_tokens) == new_tokens

\* new_tokens - 1, in units of 1/period token
Consume(new_tokens) == new_tokens - period

\* RateLimiter.check_rate_limit for client c: the refilled tokens.  The
\* method reads current_time first; a bucket the defaultdict then creates
\* reads the clock again, d later.
Refilled(c, d) == NewTokens(Bucket(c, d).tokens, now - Bucket(c, d).last_update)

\* RateLimiter.check_rate_limit for client c: it returns (TRUE) or raises
\* HTTPException 429 (FALSE)
CheckAllowed(c, d) == ~Limited(Refilled(c, d))

RetryAfterUntilRefill(new_tokens) ==
    ToString((period - new_tokens + requests - 1) \div requests)

\* headers={"Retry-After": str(self.period)}, raised with new_tokens in the
\* bucket
RetryAfter(new_tokens) == ToString(period)

\* RateLimiter.check_rate_limit for client c: what the caller sees, nothing
\* (it returns) or the HTTPException
CheckResult(c, d) ==
    IF CheckAllowed(c, d)
    THEN [client |-> c, allowed |-> TRUE, status |-> "none", retry_after |-> None]
    ELSE [client |-> c, allowed |-> FALSE, status |-> "429",
          retry_after |-> RetryAfter(Refilled(c, d))]

BucketsAfterRejectionStamps(c, d) ==
    IF CheckAllowed(c, d)
    THEN Store(buckets, c, [tokens |-> Consume(Refilled(c, d)), last_update |-> now])
    ELSE Store(buckets, c, [tokens |-> Bucket(c, d).tokens, last_update |-> now])

\* RateLimiter.check_rate_limit for client c: self._buckets afterwards.  A
\* rejected call leaves the bucket the defaultdict gave it.
BucketsAfter(c, d) ==
    IF CheckAllowed(c, d)
    THEN Store(buckets, c, [tokens |-> Consume(Refilled(c, d)), last_update |-> now])
    ELSE Store(buckets, c, Bucket(c, d))

\* the times, of those in `times`, that are less than a period before t
Recent(times, t) == SelectSeq(times, LAMBDA u : t - u < period)

\* the record of what the bucket of client c has done since it was created;
\* `timed`: the times of the allowed requests are kept
AuditAfter(c, d, timed) ==
    LET a == IF c \in DOMAIN audit THEN audit[c]
             ELSE [created |-> now + d, granted |-> 0, times |-> <<>>]
    IN  IF CheckAllowed(c, d)
        THEN Store(audit, c, [a EXCEPT !.granted = @ + 1,
                                       !.times = IF timed THEN Append(Recent(@, now), now)
                                                 ELSE @])
        ELSE Store(audit, c, a)

\* RateLimiter.check_rate_limit(request) as one step of the program: the
\* method never awaits, so nothing runs between its statements
RateLimitStep(c, d, horizon, timed) ==
    /\ c \in DOMAIN buckets => d = 0
    /\ now + d <= horizon
    /\ now' = now + d
    /\ buckets' = BucketsAfter(c, d)
    /\ audit' = AuditAfter(c, d, timed)
    /\ rl' = CheckResult(c, d)
    /\ UNCHANGED <<requests, period>>

\* RateLimiter.check_rate_limit(request) called on its own, for a request
\* from host h
CheckRateLimit(h, d, horizon) ==
    /\ RateLimitStep(ClientId(h), d, horizon, TRUE)
    /\ UNCHANGED <<cacheVars, callVars>>

\* the client_id reset is called with: a client's, the empty string, or
\* none (the default)
ResetArgs == ClientIds \cup {"", None}

\* if client_id:
Truthy(a) == a # None /\ a # ""

\* RateLimiter.reset(client_id)
Reset(a) ==
    /\ IF Truthy(a)
       THEN buckets' = Drop(buckets, a) /\ audit' = Drop(audit, a)
       ELSE buckets' = Empty /\ audit' = Empty
    /\ rl' = NoCheck
    /\ UNCHANGED <<cacheVars, now, requests, period, callVars>>

\* no ticker
NoTicker == [id |-> 0, ex |-> None, sym |-> None]

\* no message sent
NoMessage == [conn |-> 0, kind |-> "none", error |-> None, status_code |-> None, ticker |-> NoTicker]

\* no handler call ended
NoCall ==
    [id |-> 0, kind |-> "none", opened |-> 0, closed |-> 0, pending |-> "none",
     result |-> "none", val |-> NoTicker, over |-> 0]

\* time passes between two steps, up to the horizon
Tick(horizon) ==
    /\ now < horizon
    /\ now' = now + 1
    /\ last' = NoOp
    /\ rl' = NoCheck
    /\ ended' = NoCall
    /\ scenario' = IF scenario = 0 \/ \A e \in Range(cache) : (now + 1) - e.ts <= ttl
                   THEN scenario ELSE Off
    /\ audit' = [c \in DOMAIN audit |-> [audit[c] EXCEPT !.times = Recent(@, now + 1)]]
    /\ UNCHANGED <<cache, hits, misses, gets, ttl, max_size, buckets, requests, period,
                   calls, started, ws>>
    /\ sent' = NoMessage

\* ----------------------------------------------------- MarketDataProvider

\* a slot no suspended call occupies
Free == [pc |-> "free", id |-> 0, key |-> None, ex |-> None, sym |-> None]

\* the TickerResponse made of what upstream returned to a suspended call: the
\* ticker of the call's exchange and symbol, as fetched for that call
Ticker(call) == [id |-> call.id, ex |-> call.ex, sym |-> call.sym]

\* a WebSocket connection nobody has made
NoStream ==
    [pc |-> "idle", ex |-> None, interval |-> 0, wake |-> 0, call |-> 0,
     polls |-> 0, tickers |-> 0, errors |-> 0]

\* no handler has been called yet
CallsInit ==
    /\ calls = [s \in Slots |-> Free]
    /\ ended = NoCall
    /\ started = 0
    /\ ws = [c \in Conns |-> NoStream]
    /\ sent = NoMessage

\* cache_key = f"{exchange_id}_{symbol}"
CacheKey(ex, sym) == ex \o "_" \o sym

\* MarketDataProvider._get_exchange_instance: the instance, or the status of
\* the HTTPException it raises (`made`: the exchange class constructed one)
Acquire(ex, made) ==
    IF ex \notin CcxtAttributes THEN "404"
    ELSE IF ex \notin KnownExchanges \/ ~made THEN "500"
    ELSE "instance"

\* what _get_exchange_instance can do for an exchange id
Acquired(ex) == {Acquire(ex, made) : made \in BOOLEAN}

\* the except clauses of get_ticker and get_historical: how the try block
\* ends for each outcome of the awaited fetch.  BadSymbol is caught before
\* ExchangeError; a response that fails validation or conversion is caught by
\* `except Exception`; CancelledError is no Exception and passes through.
Raised(outcome) ==
    CASE outcome = "data" -> "ok"
      [] outcome = "invalid" -> "500"
      [] outcome = "BadSymbol" -> "404"
      [] outcome = "NetworkError" -> "503"
      [] outcome = "ExchangeError" -> "400"
      [] outcome = "Exception" -> "500"
      [] outcome = "CancelledError" -> "CancelledError"

StoredUnvalidated(outcome) == outcome \in {"data", "invalid"}

\* get_ticker reaches self.ticker_cache.set only when the fetch returned and
\* TickerResponse(**ticker_data) accepted it
Stored(outcome) == outcome = "data"

\* the first free slot: where the call that suspends next is kept (a call
\* that would suspend with every slot taken is not made)
FreeSlot(s) == calls[s].pc = "free" /\ \A q \in Slots : q < s => calls[q].pc # "free"

\* what the caller gets when the try block ended with `how` and the awaited
\* exchange.close() ended with `closing`: an exception close raises replaces
\* the value being returned or the exception being raised
Outcome(how, closing) == IF closing = "closed" THEN how ELSE closing

\* the call started in this step ends in it, without suspending: it raises
\* or returns `how` (with the ticker `v`), having acquired
\* `opened` exchange instances and called close() `closed` times, and having
\* stored nothing
Ends(kind, opened, closed, how, result, v) ==
    /\ ended' = [id |-> started + 1, kind |-> kind, opened |-> opened, closed |-> closed,
                 pending |-> how, result |-> result, val |-> v, over |-> 0]
    /\ calls' = calls

\* the call started in this step holds an exchange instance and suspends at
\* the await `pc`
Suspends(key, pc, ex, sym) ==
    /\ \E s \in Slots :
          /\ FreeSlot(s)
          /\ calls' = [calls EXCEPT ![s] = [pc |-> pc, id |-> started + 1, key |-> key,
                                            ex |-> ex, sym |-> sym]]
    /\ ended' = NoCall

\* the suspended call of slot s resumes and runs to its end: the try block
\* ends with `how`, the finally clause calls exchange.close() and awaits it,
\* and close ends with `closing`.  The await of close() is not a step of its
\* own: between the call of close() and its end the call touches nothing the
\* other calls can see.  `over` is the call whose ticker the key's entry
\* held when this call stored its own (0: none, or nothing stored).
Resumes(s, kind, how, closing) ==
    /\ ended' = [id |-> calls[s].id, kind |-> kind, opened |-> 1, closed |-> 1,
                 pending |-> how, result |-> Outcome(how, closing),
                 val |-> IF kind # "historical" /\ Outcome(how, closing) = "ok"
                         THEN Ticker(calls[s]) ELSE NoTicker,
                 over |-> IF kind # "historical" /\ how = "ok" /\ HasKey(cache, calls[s].key)
                          THEN Entry(cache, calls[s].key).v.id ELSE 0]
    /\ calls' = [calls EXCEPT ![s] = Free]

\* MarketDataProvider.get_ticker up to its first await that suspends: the
\* cache lookup at time t, then on a miss _get_exchange_instance and the call
\* of exchange.fetch_ticker
GetTickerBegins(kind, ex, sym, t) ==
    LET key == CacheKey(ex, sym)
        hit == GetHit(cache, key, t, ttl)
    IN  /\ cache' = GetCache(cache, key, t, ttl)
        /\ hits' = IF hit THEN hits + 1 ELSE hits
        /\ misses' = IF hit THEN misses ELSE misses + 1
        /\ gets' = gets + 1
        /\ scenario' = Off
        /\ IF hit THEN Ends(kind, 0, 0, "ok", "ok", Entry(cache, key).v)
           ELSE \E a \in Acquired(ex) :
                    IF a = "instance"
                    THEN Suspends(key, "fetch_ticker", ex, sym)
                    ELSE Ends(kind, 0, 0, a, a, NoTicker)
        /\ UNCHANGED <<ttl, max_size, last>>

\* MarketDataProvider.get_ticker from the await of exchange.fetch_ticker on:
\* validate, store and return, or an except clause; then the finally clause
GetTickerResumes(s, kind, outcome, closing) ==
    /\ calls[s].pc = "fetch_ticker"
    /\ cache' = IF Stored(outcome)
                THEN CacheSet(cache, max_size, calls[s].key, Ticker(calls[s]), now)
                ELSE cache
    /\ Resumes(s, kind, Raised(outcome), closing)
    /\ UNCHANGED <<hits, misses, gets, scenario, ttl, max_size, last>>

\* MarketDataProvider.get_historical up to its first await that suspends:
\* _get_exchange_instance, the tests of exchange.has and exchange.timeframes
\* (each closes the exchange before it raises 400), the call of fetch_ohlcv
GetHistoricalBegins(kind, ex) ==
    /\ \E a \in Acquired(ex) :
          IF a # "instance"
          THEN Ends(kind, 0, 0, a, a, NoTicker)
          ELSE \E check \in CheckOutcomes :
                 IF check \in {"has_raises", "timeframes_raises"}
                 THEN Ends(kind, 1, 0, "Exception", "Exception", NoTicker)
                 ELSE IF check \in {"unsupported", "bad_timeframe"}
                 THEN \E closing \in CloseOutcomes :
                          Ends(kind, 1, 1, "400", Outcome("400", closing), NoTicker)
                 ELSE Suspends(None, "fetch_ohlcv", ex, None)
    /\ UNCHANGED cacheVars

GetHistoricalResumesAndCaches(s, kind, outcome, closing) ==
    /\ calls[s].pc = "fetch_ohlcv"
    /\ Resumes(s, kind, Raised(outcome), closing)
    /\ cache' = IF Stored(outcome)
                THEN CacheSet(cache, max_size, "ohlcv", Ticker(calls[s]), now)
                ELSE cache
    /\ UNCHANGED <<hits, misses, gets, scenario, ttl, max_size, last>>

\* MarketDataProvider.get_historical from the await of exchange.fetch_ohlcv on
GetHistoricalResumes(s, kind, outcome, closing) ==
    /\ calls[s].pc = "fetch_ohlcv"
    /\ Resumes(s, kind, Raised(outcome), closing)
    /\ UNCHANGED cacheVars

\* ------------------------------------------------------ main.py handlers
\* a handler is called: the rate limit check runs first, as one step with
\* what follows it up to the first await that suspends
Called(h, d) ==
    /\ started < MaxCalls
    /\ started' = started + 1
    /\ ws' = ws
    /\ sent' = NoMessage
    /\ RateLimitStep(ClientId(h), d, MaxTime, FALSE)

ProceedsAnyway(c, d) == TRUE

\* await rate_limiter.check_rate_limit(request) returned: the handler goes on
\* to its next statement; an HTTPException it raised leaves the handler
Proceeds(c, d) == CheckAllowed(c, d)

\* main.get_price: the rate limit check, then get_ticker
GetPrice(h, d, ex, sym) ==
    /\ Called(h, d)
    /\ IF Proceeds(ClientId(h), d)
       THEN GetTickerBegins("price", ex, sym, now + d)
       ELSE Ends("price", 0, 0, "429", "429", NoTicker) /\ UNCHANGED cacheVars

\* the call suspended in slot s is the get_ticker of a WebSocket connection
Polling(s) == \E c \in Conns : ws[c].pc = "fetch" /\ ws[c].call = calls[s].id

\* main.get_price resumes in get_ticker and returns what it returns
FetchTickerReturns(s, outcome, closing) ==
    /\ ~Polling(s)
    /\ GetTickerResumes(s, "price", outcome, closing)
    /\ rl' = NoCheck
    /\ sent' = NoMessage
    /\ UNCHANGED <<now, buckets, requests, period, audit, started, ws>>

\* main.get_historical_data: the rate limit check, then get_historical
GetHistoricalData(h, d, ex) ==
    /\ Called(h, d)
    /\ IF Proceeds(ClientId(h), d)
       THEN GetHistoricalBegins("historical", ex)
       ELSE Ends("historical", 0, 0, "429", "429", NoTicker) /\ UNCHANGED cacheVars

\* main.get_historical_data resumes in get_historical
FetchOhlcvReturns(s, outcome, closing) ==
    /\ GetHistoricalResumes(s, "historical", outcome, closing)
    /\ rl' = NoCheck
    /\ sent' = NoMessage
    /\ UNCHANGED <<now, buckets, requests, period, audit, started, ws>>

\* the HTTPExceptions get_ticker raises, by status
HTTPStatuses == {"400", "404", "500", "503"}

\* websocket.send_json(ticker_data.dict()) on connection c
TickerMessage(c, v) ==
    [conn |-> c, kind |-> "ticker", error |-> None, status_code |-> None, ticker |-> v]

\* the message of the except clauses of the polling loop: detail and status
\* of an HTTPException, str(e) and 500 for any other exception
ErrorMessage(c, result) ==
    [conn |-> c, kind |-> "error", error |-> result,
     status_code |-> IF result \in HTTPStatuses THEN result ELSE "500",
     ticker |-> NoTicker]

\* what websocket_endpoint sends on connection c when its get_ticker call
\* ended with `result` (and the ticker v).  When the client is gone the send
\* raises, and the except clause's own send raises as well; a CancelledError
\* is caught by no clause.
WsSends(c, result, v, gone) ==
    IF result = "CancelledError" \/ gone THEN NoMessage
    ELSE IF result = "ok" THEN TickerMessage(c, v)
    ELSE ErrorMessage(c, result)

WsAfterNoBreak(w, m) ==
    IF m.kind = "none" THEN [w EXCEPT !.pc = "done", !.call = 0]
    ELSE IF m.kind = "ticker"
    THEN [w EXCEPT !.pc = "sleep", !.call = 0, !.wake = now + w.interval, !.tickers = @ + 1]
    ELSE [w EXCEPT !.pc = "sleep", !.call = 0, !.wake = now + w.interval, !.errors = @ + 1]

\* websocket_endpoint from the end of its get_ticker call to its next await
\* that suspends, for the connection record w, having sent m: after a ticker
\* the handler sleeps poll_interval; after an error message it leaves the
\* loop; when nothing could be sent it has ended
WsAfter(w, m) ==
    IF m.kind = "none" THEN [w EXCEPT !.pc = "done", !.call = 0]
    ELSE IF m.kind = "ticker"
    THEN [w EXCEPT !.pc = "sleep", !.call = 0, !.wake = now + w.interval, !.tickers = @ + 1]
    ELSE [w EXCEPT !.pc = "done", !.call = 0, !.errors = @ + 1]

WsPollRateLimited(c, ex, interval) ==
    /\ started < MaxStreamCalls
    /\ \/ ws[c].pc = "idle" /\ \A q \in Conns : q < c => ws[q].pc # "idle"
       \/ ws[c].pc = "sleep" /\ now >= ws[c].wake /\ ex = ws[c].ex /\ interval = ws[c].interval
    /\ started' = started + 1
    /\ \E h \in Hosts :
          /\ RateLimitStep(ClientId(h), 0, MaxTime, FALSE)
          /\ LET w == [ws[c] EXCEPT !.ex = ex, !.interval = interval, !.polls = @ + 1]
             IN  IF Proceeds(ClientId(h), 0)
                 THEN /\ \E sym \in Symbols : GetTickerBegins("ws", ex, sym, now)
                      /\ IF ended' = NoCall
                         THEN /\ ws' = [ws EXCEPT ![c] = [w EXCEPT !.pc = "fetch",
                                                                   !.call = started + 1]]
                              /\ sent' = NoMessage
                         ELSE \E gone \in BOOLEAN :
                                  /\ sent' = WsSends(c, ended'.result, ended'.val, gone)
                                  /\ ws' = [ws EXCEPT ![c] = WsAfter(w, sent')]
                 ELSE /\ Ends("ws", 0, 0, "429", "429", NoTicker)
                      /\ UNCHANGED cacheVars
                      /\ \E gone \in BOOLEAN :
                            /\ sent' = WsSends(c, "429", NoTicker, gone)
                            /\ ws' = [ws EXCEPT ![c] = WsAfter(w, sent')]

\* websocket_endpoint calls get_ticker: when the connection is accepted
\* (exchange id and poll interval are the connection's from then on) and each
\* time its sleep is over.  No rate limit check is made.  The call suspends
\* in its fetch, or ends at once and the handler goes on to its next sleep or
\* to its end.
WsPoll(c, ex, interval) ==
    /\ started < MaxStreamCalls
    /\ \/ ws[c].pc = "idle" /\ \A q \in Conns : q < c => ws[q].pc # "idle"
       \/ ws[c].pc = "sleep" /\ now >= ws[c].wake /\ ex = ws[c].ex /\ interval = ws[c].interval
    /\ started' = started + 1
    /\ \E sym \in Symbols : GetTickerBegins("ws", ex, sym, now)
    /\ LET w == [ws[c] EXCEPT !.ex = ex, !.interval = interval, !.polls = @ + 1]
       IN  IF ended' = NoCall
           THEN /\ ws' = [ws EXCEPT ![c] = [w EXCEPT !.pc = "fetch", !.call = started + 1]]
                /\ sent' = NoMessage
           ELSE \E gone \in BOOLEAN :
                    /\ sent' = WsSends(c, ended'.result, ended'.val, gone)
                    /\ ws' = [ws EXCEPT ![c] = WsAfter(w, sent')]
    /\ rl' = NoCheck
    /\ UNCHANGED <<now, buckets, requests, period, audit>>

\* websocket_endpoint resumes in the get_ticker call of connection c
WsFetchReturns(c, s, outcome, closing) ==
    /\ ws[c].pc = "fetch"
    /\ calls[s].id = ws[c].call
    /\ GetTickerResumes(s, "ws", outcome, closing)
    /\ \E gone \in BOOLEAN :
          /\ sent' = WsSends(c, ended'.result, ended'.val, gone)
          /\ ws' = [ws EXCEPT ![c] = WsAfter(ws[c], sent')]
    /\ rl' = NoCheck
    /\ UNCHANGED <<now, buckets, requests, period, audit, started>>

\* what a MarketDataProvider has: the attribute __init__ sets and the methods
\* the class defines
ProviderAttributes == {"ticker_cache", "_get_exchange_instance", "get_ticker", "get_historical"}

\* provider.<name>: the attribute, or the AttributeError the lookup raises
Attribute(name) == IF name \in ProviderAttributes THEN "found" ELSE "AttributeError"

\* a handler that is not rate limited calls provider.<name>() first of all:
\* the lookup of a name the provider does not have raises AttributeError
\* before anything is called, and the handler ends with it
CallsProvider(kind, name) ==
    /\ started < MaxCalls
    /\ started' = started + 1
    /\ Attribute(name) = "AttributeError"
    /\ Ends(kind, 0, 0, "AttributeError", "AttributeError", NoTicker)
    /\ rl' = NoCheck
    /\ sent' = NoMessage
    /\ UNCHANGED <<cacheVars, now, buckets, requests, period, audit, ws>>

\* main.clear_cache: POST /admin/clear-cache
ClearCache == CallsProvider("clear_cache", "clear_caches")

\* main.get_cache_stats: GET /admin/cache-stats
GetCacheStats == CallsProvider("cache_stats", "get_cache_stats")

\* main.health_check: GET /health
HealthCheck == CallsProvider("health", "get_cache_stats")

\* main.shutdown_event
ShutdownEvent == CallsProvider("shutdown", "clear_caches")

\* the server has not shut down
Running == ended.kind # "shutdown"

\* MarketDataProvider() and the module's rate_limiter, as main.py makes them
Init ==
    /\ now = 0
    /\ CacheInit(ServiceTTLs, {DefaultMaxSize})
    /\ LimiterInit(ServiceLimits)
    /\ CallsInit

Next ==
    \/ \E h \in Hosts, d \in Skews, ex \in ExchangeIds, sym \in Symbols :
          GetPrice(h, d, ex, sym)
    \/ \E s \in Slots, o \in FetchOutcomes, c \in CloseOutcomes : FetchTickerReturns(s, o, c)
    \/ \E h \in Hosts, d \in Skews, ex \in ExchangeIds :
          GetHistoricalData(h, d, ex)
    \/ \E s \in Slots, o \in FetchOutcomes, c \in CloseOutcomes : FetchOhlcvReturns(s, o, c)
    \/ Tick(MaxTime)

Spec == Init /\ [][Next]_vars

\* -------------------- get_price called with exchange ids and symbols that
\* -------------------- contain the separator of the cache key
NextKeys ==
    \/ \E h \in Hosts, d \in Skews, ex \in KeyExchangeIds, sym \in KeySymbols :
          GetPrice(h, d, ex, sym)
    \/ \E s \in Slots, o \in FetchOutcomes, c \in CloseOutcomes : FetchTickerReturns(s, o, c)
    \/ Tick(MaxTime)

SpecKeys == Init /\ [][NextKeys]_vars

\* -------------------- get_price beside the admin and health endpoints, up
\* -------------------- to the shutdown of the server
NextAdmin ==
    \/ Running /\ \E h \in Hosts, d \in Skews, sym \in Symbols : GetPrice(h, d, "binance", sym)
    \/ Running /\ \E s \in Slots, o \in FetchOutcomes, c \in CloseOutcomes :
                     FetchTickerReturns(s, o, c)
    \/ Running /\ ClearCache
    \/ Running /\ GetCacheStats
    \/ Running /\ HealthCheck
    \/ Running /\ ShutdownEvent
    \/ Running /\ Tick(MaxTime)

SpecAdmin == Init /\ [][NextAdmin]_vars

\* -------------------- WebSocket connections polling get_ticker, beside
\* -------------------- rate-limited get_price requests
NextStream ==
    \/ \E c \in Conns, ex \in StreamExchangeIds, i \in PollIntervals : WsPoll(c, ex, i)
    \/ \E c \in Conns, s \in Slots, o \in FetchOutcomes, cl \in CloseOutcomes :
          WsFetchReturns(c, s, o, cl)
    \/ /\ started < MaxStreamCalls
       /\ \E h \in Hosts, d \in Skews, sym \in Symbols : GetPrice(h, d, "binance", sym)
    \/ \E s \in Slots, o \in FetchOutcomes, cl \in CloseOutcomes : FetchTickerReturns(s, o, cl)
    \/ Tick(MaxTime)

InitStream ==
    /\ now = 0
    /\ CacheInit(ServiceTTLs, {DefaultMaxSize})
    /\ LimiterInit({<<1, 2>>})
    /\ CallsInit

SpecStream == InitStream /\ [][NextStream]_vars

\* ------------------------------------------- the cache driven on its own
InitCache ==
    /\ now = 0
    /\ CacheInit(TTLs, MaxSizes)
    /\ LimiterInit({<<1, 1>>})
    /\ CallsInit

NextCache ==
    \/ \E k \in Keys, v \in Values : Set(k, v)
    \/ \E k \in Keys : Get(k)
    \/ \E k \in Keys : Delete(k)
    \/ Clear
    \/ Tick(MaxTime)

SpecCache == InitCache /\ [][NextCache]_vars

\* ------------------------------------ the rate limiter driven on its own
InitLimiter ==
    /\ now = 0
    /\ CacheInit({1}, {1})
    /\ LimiterInit(Limits)
    /\ CallsInit

NextLimiter ==
    \/ \E h \in Hosts \cup {NoClient}, d \in Skews : CheckRateLimit(h, d, MaxClock)
    \/ \E a \in ResetArgs : Reset(a)
    \/ Tick(MaxClock)

SpecLimiter == InitLimiter /\ [][NextLimiter]_vars

\* ------------------------------------------------------- cache properties

\* C1: whenever a set has completed, the cache holds at most max_size entries
\* (max_size >= 1).
C1_SizeBounded == last.op = "set" => Len(cache) <= max_size

\* a set of a new key that found the cache full, evicted, and left it full
C1_Witness ==
    /\ last.op = "set"
    /\ last.evicted # None
    /\ last.evicted # last.k
    /\ Len(cache) = max_size

\* C2: get(k) returns the stored value exactly when k has an entry whose age
\* now - insertedAt is at most ttl (age = ttl is a hit, age > ttl is absent).
C2_GetReturns ==
    [][\A k \in {last'.k} : (last'.op = "get" /\ Get(k)) =>
        IF HasKey(cache, k) /\ now - Entry(cache, k).ts <= ttl
        THEN last'.v = Entry(cache, k).v /\ last'.v # None
        ELSE last'.v = None]_vars

\* a get that returned a value whose age was ttl exactly
C2_Witness ==
    /\ last.op = "get"
    /\ last.v # None
    /\ HasKey(cache, last.k)
    /\ now - Entry(cache, last.k).ts = ttl

C4_OverwriteNeverEvicts ==
    [][\A k \in {last'.k}, v \in {last'.v} :
        (last'.op = "set" /\ HasKey(cache, k) /\ Set(k, v)) =>
            /\ Len(cache') = Len(cache)
            /\ Range(cache') = (Range(cache) \ {Entry(cache, k)})
                                   \cup {[k |-> k, v |-> v, ts |-> now]}]_vars

\* ------------------------------------------------ rate limiter properties

\* C5: check_rate_limit refills first, tokens = min(capacity, tokens +
\* elapsed/period * capacity) with elapsed = now - lastUpdate, rejects exactly
\* when the refilled tokens are below 1, and on allow stores (refilled - 1,
\* now) for that client and touches no other bucket.  (Token counts are in
\* units of 1/period token.)
C5_RefillThenConsume ==
    [][\A h \in Hosts \cup {NoClient}, d \in Skews :
        CheckRateLimit(h, d, MaxClock) =>
            LET c == ClientId(h)
                tokens == IF c \in DOMAIN buckets THEN buckets[c].tokens
                          ELSE requests * period
                lastUpdate == IF c \in DOMAIN buckets THEN buckets[c].last_update
                              ELSE now + d
                grown == tokens + (now - lastUpdate) * requests
                refilled == IF grown > requests * period THEN requests * period ELSE grown
            IN  /\ rl'.allowed <=> refilled >= period
                /\ rl'.allowed =>
                       buckets'[c] = [tokens |-> refilled - period, last_update |-> now]
                /\ \A o \in DOMAIN buckets \ {c} : buckets'[o] = buckets[o]]_vars

\* an allowed request that consumed from a bucket refilled by a fraction of a
\* token
C5_Witness ==
    /\ rl.allowed
    /\ rl.client \in DOMAIN buckets
    /\ audit[rl.client].granted >= 2
    /\ buckets[rl.client].last_update > audit[rl.client].created
    /\ buckets[rl.client].tokens % period # 0

\* C6: a new client's bucket starts full: the first request of a new client
\* is allowed, requests made at the instant the bucket was created are
\* allowed until `requests` of them have been, the next one at that instant
\* is rejected, and once the bucket is exhausted at that instant a request
\* made period/requests or more later, with no allowed request in between,
\* is allowed.
C6_BurstThenRefill ==
    [][\A h \in Hosts \cup {NoClient}, d \in Skews :
        CheckRateLimit(h, d, MaxClock) =>
            LET c == ClientId(h) IN
            /\ c \notin DOMAIN buckets => rl'.allowed
            /\ (/\ c \in DOMAIN buckets
                /\ buckets[c].last_update = audit[c].created
                /\ now = audit[c].created)
                   => (rl'.allowed <=> audit[c].granted < requests)
            /\ (/\ c \in DOMAIN buckets
                /\ buckets[c].last_update = audit[c].created
                /\ audit[c].granted = requests
                /\ (now - audit[c].created) * requests >= period)
                   => rl'.allowed]_vars

\* ---------------------------------------------------- service properties

\* C7: whatever the interleaving of a client's requests, its bucket never
\* goes below zero and the requests it has allowed never exceed what it held
\* when created plus what the elapsed time refilled: every allowed request
\* consumed a token of its own.  (Units of 1/period token.)
C7_NoTokenSpentTwice ==
    \A c \in DOMAIN buckets :
        /\ buckets[c].tokens >= 0
        /\ buckets[c].tokens <= Capacity
        /\ audit[c].granted * period + buckets[c].tokens
               <= Capacity + (buckets[c].last_update - audit[c].created) * requests

\* two allowed requests of one client are suspended in their upstream fetch
\* while a third request of that client is rejected
C7_Witness ==
    /\ \A s \in Slots : calls[s].pc # "free"
    /\ rl.client \in DOMAIN buckets
    /\ ~rl.allowed
    /\ audit[rl.client].granted >= 2
    /\ ended.result = "429"

\* C8: a get_ticker call that failed for any reason after the cache lookup,
\* a failure while closing the exchange included, has left no cache entry
\* written by it.
C8_FailedCallNotCached ==
    (ended.kind = "price" /\ ended.result \notin {"ok", "429"}) =>
        \A e \in Range(cache) : e.v.id # ended.id

\* C8 as the code has it: a get_ticker call that failed before it stored
\* (exchange not found, no instance, the fetch raised or was cancelled, the
\* response failed validation) has left no cache entry written by it; a call
\* whose fetch and validation succeeded has stored the ticker, whether or not
\* closing the exchange then failed.
C8_FailedBeforeStoreNotCached ==
    ended.kind = "price" =>
        /\ ended.pending \notin {"ok", "429"} =>
               \A e \in Range(cache) : e.v.id # ended.id
        /\ (ended.pending = "ok" /\ ended.opened = 1) =>
               \E e \in Range(cache) : e.v.id = ended.id /\ e.ts = now

\* a get_ticker call cancelled during its fetch, beside an entry another
\* call stored
C8_Witness ==
    /\ ended.kind = "price"
    /\ ended.opened = 1
    /\ ended.pending = "CancelledError"
    /\ \E e \in Range(cache) : e.v.id # ended.id

\* C9: an allowed get_price call returns the cached ticker, opening and
\* closing no exchange and leaving the cache as it was, exactly when the
\* cache holds an entry for the key of age <= ttl; otherwise it contacts
\* upstream (or fails to get an exchange instance), and the ticker a fetch
\* delivers is stored under the key with the time of the store.
C9_FetchesExactlyOnMiss ==
    [][/\ \A h \in Hosts, d \in {now' - now}, ex \in ExchangeIds, sym \in Symbols :
            (started' = started + 1 /\ rl'.allowed /\ GetPrice(h, d, ex, sym)) =>
                LET key == CacheKey(ex, sym)
                    fresh == HasKey(cache, key) /\ (now + d) - Entry(cache, key).ts <= ttl
                    fetching == \E s \in Slots :
                                    /\ calls[s].pc = "free"
                                    /\ calls'[s] = [pc |-> "fetch_ticker",
                                                    id |-> started + 1, key |-> key,
                                                    ex |-> ex, sym |-> sym]
                IN  IF fresh
                    THEN /\ ~fetching
                         /\ calls' = calls
                         /\ cache' = cache
                         /\ ended' = [id |-> started + 1, kind |-> "price", opened |-> 0,
                                      closed |-> 0, pending |-> "ok", result |-> "ok",
                                      val |-> Entry(cache, key).v, over |-> 0]
                    ELSE /\ ~HasKey(cache', key)
                         /\ \/ fetching /\ ended' = NoCall
                            \/ ~fetching /\ ended'.opened = 0 /\ ended'.result \in {"404", "500"}
       /\ \A s \in Slots, c \in CloseOutcomes :
            (/\ calls[s].pc = "fetch_ticker"
             /\ ended'.pending = "ok"
             /\ FetchTickerReturns(s, "data", c)) =>
                Entry(cache', calls[s].key) =
                    [k |-> calls[s].key, v |-> Ticker(calls[s]), ts |-> now]]_vars

\* a first call stored the ticker, a second was answered from the cache, and
\* a third, made after the entry expired, is in its upstream fetch
C9_Witness ==
    /\ hits = 1
    /\ misses = 2
    /\ started = 3
    /\ \E s \in Slots : calls[s] = [pc |-> "fetch_ticker", id |-> 3,
                                    key |-> CacheKey("binance", "BTC/USDT"),
                                    ex |-> "binance", sym |-> "BTC/USDT"]
    /\ \E s \in Slots : calls[s].pc = "free"
    /\ cache = <<>>

\* C10: a call that acquired an exchange instance has closed it exactly once
\* when it returns or raises, on every exit path.
C10_ClosedExactlyOnce == ended.opened = ended.closed

\* C11: a /price or /historical request the rate limiter rejects looks
\* nothing up and calls nothing upstream (entries, hit and miss counters and
\* the suspended calls are as before, and it ends with 429), and a step that
\* makes a cache lookup is a step of a request whose client was just allowed.
C11_LimitBeforeCacheAndUpstream ==
    [][/\ (started' = started + 1 /\ ~rl'.allowed) =>
            /\ cache' = cache /\ hits' = hits /\ misses' = misses
            /\ calls' = calls
            /\ ended'.id = started' /\ ended'.result = "429"
            /\ ended'.opened = 0
       /\ (hits' # hits \/ misses' # misses) =>
            /\ started' = started + 1
            /\ rl'.allowed
            /\ rl'.client \in {ClientId(h) : h \in Hosts}
            /\ audit'[rl'.client].granted =
                   (IF rl'.client \in DOMAIN audit THEN audit[rl'.client].granted ELSE 0) + 1
      ]_vars

\* a request rejected while the cache holds a fresh entry for its key: the
\* entry is not looked up
C11_Witness ==
    /\ ~rl.allowed
    /\ ended.result = "429"
    /\ ended.kind = "price"
    /\ hits = 0
    /\ misses = 1
    /\ \E e \in Range(cache) : now - e.ts <= ttl

\* C12: every rejection by check_rate_limit is an HTTPException with status
\* 429 whose Retry-After is the configured period (as a string), whatever
\* the bucket holds and however soon it would refill.
C12_RetryAfterIsPeriod ==
    /\ ~rl.allowed => (rl.status = "429" /\ rl.retry_after = ToString(period))
    /\ rl.allowed => (rl.status = "none" /\ rl.retry_after = None)

\* a rejection of a client whose bucket would hold a token again in one
\* tick, sooner than the period
C12_Witness ==
    /\ ~rl.allowed
    /\ rl.client \in DOMAIN buckets
    /\ period > 1
    /\ buckets[rl.client].tokens < period
    /\ buckets[rl.client].tokens + requests >= period

\* C13: reset with a client identity, whatever it is, removes that client's
\* bucket and no other (so that the client's next request finds a fresh full
\* bucket), and only reset with no identity removes every bucket.
C13_ResetRemovesOneBucket ==
    [][\A a \in ResetArgs :
        (rl' = NoCheck /\ now' = now /\ Reset(a)) =>
            IF a # None
            THEN /\ a \notin DOMAIN buckets'
                 /\ \A o \in DOMAIN buckets \ {a} :
                        o \in DOMAIN buckets' /\ buckets'[o] = buckets[o]
            ELSE buckets' = Empty]_vars

\* C14: after clear, from any cache state, size() is 0 and the hit and the
\* miss counter are 0; ttl and max_size are as they were.
C14_ClearResetsAll ==
    [][(last'.op = "clear" /\ Clear) =>
        /\ Size(cache') = 0
        /\ hits' = 0 /\ misses' = 0
        /\ ttl' = ttl /\ max_size' = max_size]_vars

\* a clear of a cache that held entries, hits and misses
C14_Witness ==
    /\ last.op = "clear"
    /\ last.ok
    /\ Size(cache) = 0
    /\ hits + misses = 0

\* C15: delete(k) returns true exactly when k had an entry, expired or not,
\* and then removes that entry only; otherwise it returns false and changes
\* nothing.  Either way the counters and the other entries stay as they were.
C15_DeleteRemovesOnlyKey ==
    [][\A k \in {last'.k} : (last'.op = "delete" /\ Delete(k)) =>
        /\ last'.ok <=> HasKey(cache, k)
        /\ IF HasKey(cache, k)
           THEN /\ Range(cache') = Range(cache) \ {Entry(cache, k)}
                /\ Len(cache') = Len(cache) - 1
           ELSE cache' = cache
        /\ hits' = hits /\ misses' = misses]_vars

\* a delete that returned true and left the other entry, an expired one, in
\* the cache, with hits and misses counted before
C15_Witness ==
    /\ last.op = "delete"
    /\ last.ok
    /\ Len(cache) = 1
    /\ \A e \in Range(cache) : e.k # last.k /\ now - e.ts > ttl
    /\ hits > 0
    /\ misses > 0

\* C16: every get changes exactly one counter, by one: hits when it returns
\* a value, misses when it returns absent; set and delete change neither; so
\* hits + misses is the number of gets since construction or the last clear.
C16_OneCounterPerGet ==
    [][/\ hits' + misses' = gets'
       /\ \A k \in {last'.k} : (last'.op = "get" /\ Get(k)) =>
            IF last'.v # None
            THEN hits' = hits + 1 /\ misses' = misses
            ELSE misses' = misses + 1 /\ hits' = hits
       /\ last'.op \in {"set", "delete"} => (hits' = hits /\ misses' = misses)]_vars

\* the last of MaxGets gets returned absent for a key that was stored before
\* (another key has taken its place or it expired), after hits and misses
C16_Witness ==
    /\ last.op = "get"
    /\ last.v = None
    /\ hits >= 1
    /\ misses >= 2
    /\ gets = MaxGets
    /\ cache # <<>>

C18_FailureKindPreserved ==
    [][/\ \A h \in Hosts, d \in {now' - now}, ex \in ExchangeIds \ KnownExchanges :
            (/\ started' = started + 1
             /\ rl'.allowed
             /\ \/ \E sym \in Symbols : GetPrice(h, d, ex, sym)
                \/ GetHistoricalData(h, d, ex))
                => (ended'.pending = "404" /\ ended'.result = "404")
       /\ \A s \in Slots, o \in FetchOutcomes \ {"data", "CancelledError"}, c \in CloseOutcomes :
            (/\ calls[s].pc # "free"
             /\ ended'.id = calls[s].id
             /\ FetchTickerReturns(s, o, c) \/ FetchOhlcvReturns(s, o, c))
                => /\ ended'.result # "ok"
                   /\ ended'.pending =
                        CASE o = "BadSymbol" -> "404"
                          [] o = "NetworkError" -> "503"
                          [] o = "ExchangeError" -> "400"
                          [] OTHER -> "500"]_vars

\* C19: get_historical neither reads nor writes the ticker cache: on every
\* path the entries, the size and the hit and miss counters are after the
\* call what they were before it.
C19_HistoricalLeavesCache ==
    [][/\ (started' = started + 1 /\ rl'.allowed
           /\ (ended'.kind = "historical"
               \/ \E s \in Slots : calls[s].pc = "free" /\ calls'[s].pc = "fetch_ohlcv"))
            => (cache' = cache /\ Size(cache') = Size(cache)
                /\ hits' = hits /\ misses' = misses /\ gets' = gets)
       /\ (\E s \in Slots : calls[s].pc = "fetch_ohlcv" /\ calls'[s].pc = "free")
            => (cache' = cache /\ Size(cache') = Size(cache)
                /\ hits' = hits /\ misses' = misses /\ gets' = gets)]_vars

\* a get_historical call has returned candles while the ticker cache holds
\* an entry and has counted a hit and a miss
C19_Witness ==
    /\ ended.kind = "historical"
    /\ ended.result = "ok"
    /\ cache # <<>>
    /\ hits = 1
    /\ misses = 1

\* C20: the cache key tells the (exchange id, symbol) pairs apart, so a
\* get_price call answered from the cache gets a ticker that was fetched for
\* its own exchange id and symbol.
C20_KeyCollisionFree ==
    [][\A h \in Hosts, d \in {now' - now}, ex \in KeyExchangeIds, sym \in KeySymbols :
        (/\ started' = started + 1
         /\ ended'.result = "ok"
         /\ ended'.opened = 0
         /\ GetPrice(h, d, ex, sym))
            => (ended'.val.ex = ex /\ ended'.val.sym = sym)]_vars

\* C21: the admin clear-cache endpoint and shutdown leave the ticker cache
\* empty with zeroed counters, the health and cache-stats endpoints return
\* the cache's stats(), and none of these calls fails.
C21_PassThrough ==
    /\ ended.kind \in {"clear_cache", "shutdown"} =>
          (ended.result = "ok" /\ Size(cache) = 0 /\ hits = 0 /\ misses = 0)
    /\ ended.kind \in {"health", "cache_stats"} => ended.result = "ok"

\* C22: every stored bucket holds at least 0 and at most `requests` tokens,
\* after any sequence of allowed requests, rejected requests and resets of
\* any clients.  (Units of 1/period token.)
C22_TokensInRange ==
    \A c \in DOMAIN buckets :
        0 <= buckets[c].tokens /\ buckets[c].tokens <= requests * period

\* one client has just been rejected with an empty bucket, while another was
\* allowed a second time more than a period after its bucket was made, from
\* a bucket that time had filled to the capacity again
C22_Witness ==
    /\ ~rl.allowed
    /\ rl.client \in DOMAIN buckets
    /\ buckets[rl.client].tokens = 0
    /\ requests >= 2
    /\ \E o \in DOMAIN buckets \ {rl.client} :
          /\ audit[o].granted = 2
          /\ buckets[o].last_update - audit[o].created > period
          /\ buckets[o].tokens = Capacity - period

\* C23: get_ticker calls for one key that overlap do not block one another
\* (any call suspended on its fetch can resume, whatever the others do); a
\* call whose fetch returns stores its own ticker, so that the cache then
\* holds exactly one entry for the key, with the ticker of the call that
\* stored last; no other step changes an entry's value, and a later get
\* within the TTL returns that ticker.
C23_LastWriteWins ==
    [][/\ \A s \in Slots : calls[s].pc = "fetch_ticker" =>
            ENABLED FetchTickerReturns(s, "data", "closed")
       /\ \A s \in Slots :
            (/\ calls[s].pc = "fetch_ticker"
             /\ calls'[s].pc = "free"
             /\ ended'.pending = "ok") =>
                /\ Cardinality({i \in 1..Len(cache') : cache'[i].k = calls[s].key}) = 1
                /\ Entry(cache', calls[s].key).v = Ticker(calls[s])
                /\ ended'.result = "ok" => ended'.val = Ticker(calls[s])
                /\ \A q \in Slots \ {s} : calls'[q] = calls[q]
       /\ ~(ended'.pending = "ok" /\ ended'.opened = 1) =>
            \A e \in Range(cache') : e \in Range(cache)
       /\ (started' = started + 1 /\ ended'.kind = "price" /\ ended'.result = "ok") =>
            \E e \in Range(cache) :
                /\ e.v = ended'.val
                /\ e.k = CacheKey(e.v.ex, e.v.sym)
                /\ now' - e.ts <= ttl]_vars

\* of two overlapping calls for one key, the one made first stored last,
\* over the ticker the other had stored: the cache holds its ticker alone
C23_Witness ==
    /\ ended.kind = "price"
    /\ ended.pending = "ok"
    /\ ended.opened = 1
    /\ ended.over > ended.id
    /\ Len(cache) = 1
    /\ cache[1].v.id = ended.id

\* C24: a get(k) that finds k's entry expired removes that entry and no
\* other before it returns absent (the size is one less), and a get(k) of a
\* key with no entry is a miss that changes no entry.  Until then an expired
\* entry stays: it leaves the cache only by a get of its key, a set that
\* evicts or replaces it, a delete of its key or a clear, and a set of a new
\* key into a cache full of expired entries still evicts just one.
C24_ExpiredRemovedOnGet ==
    [][/\ \A k \in {last'.k} :
            (/\ last'.op = "get"
             /\ HasKey(cache, k)
             /\ now - Entry(cache, k).ts > ttl
             /\ Get(k)) =>
                /\ last'.v = None
                /\ Size(cache') = Size(cache) - 1
                /\ Range(cache') = Range(cache) \ {Entry(cache, k)}
                /\ ~HasKey(cache', k)
                /\ misses' = misses + 1
       /\ \A k \in {last'.k} :
            (last'.op = "get" /\ ~HasKey(cache, k) /\ Get(k)) =>
                (last'.v = None /\ cache' = cache /\ misses' = misses + 1)
       /\ \A e \in Range(cache) :
            (now - e.ts > ttl /\ e \notin Range(cache')) =>
                \/ last'.op \in {"get", "delete"} /\ last'.k = e.k
                \/ last'.op = "set" /\ (last'.evicted = e.k \/ last'.k = e.k)
                \/ last'.op = "clear"
       /\ (/\ last'.op = "set"
           /\ ~HasKey(cache, last'.k)
           /\ Size(cache) = max_size
           /\ \A e \in Range(cache) : now - e.ts > ttl) =>
                Size(cache') = max_size]_vars

\* a get has removed its key's expired entry; the other entry, expired as
\* well, is still in the cache and counted
C24_Witness ==
    /\ last.op = "get"
    /\ last.evicted = last.k
    /\ last.v = None
    /\ Size(cache) = 1
    /\ max_size = 2
    /\ \A e \in Range(cache) : now - e.ts > ttl

\* the requests of client c allowed at the times t1..t2, since its bucket was
\* made
AllowedIn(c, t1, t2) ==
    Cardinality({i \in 1..Len(audit[c].times) :
                    t1 <= audit[c].times[i] /\ audit[c].times[i] <= t2})

\* C25: in any time window shorter than one period a client is allowed
\* fewer than 2 * requests requests, and at most requests + window / period
\* * requests, whatever the timing of its requests to one bucket.  (Stated
\* of the windows that end now: a window is one of these in the state its
\* last allowed request leaves.)
C25_NoDoubleQuota ==
    \A c \in DOMAIN audit : \A t1 \in 0..now :
        now - t1 < period =>
            /\ AllowedIn(c, t1, now) < 2 * requests
            /\ AllowedIn(c, t1, now) * period <= requests * period + (now - t1) * requests

\* a client has been allowed more than its quota within less than a period,
\* as many requests as the bound admits, and has just been rejected
C25_Witness ==
    /\ ~rl.allowed
    /\ rl.client \in DOMAIN audit
    /\ \E t1 \in 0..now :
          /\ t1 < now
          /\ now - t1 < period
          /\ AllowedIn(rl.client, t1, now) > requests
          /\ (AllowedIn(rl.client, t1, now) + 1) * period
                 > requests * period + (now - t1) * requests

\* C26: a rejected check_rate_limit leaves the client's bucket, tokens and
\* last_update, as it was (for a client that had none: as it was made, full)
\* and touches no other bucket; so a client whose bucket is (tokens,
\* last_update) is allowed at time t exactly when tokens + (t - last_update)
\* / period * requests >= 1, however many of its requests were rejected
\* before.  (Units of 1/period token.)
C26_RejectionLeavesBucket ==
    [][\A h \in Hosts \cup {NoClient}, d \in {now' - now} :
        (rl'.client = ClientId(h) /\ CheckRateLimit(h, d, MaxClock)) =>
            LET c == ClientId(h) IN
            /\ (~rl'.allowed /\ c \in DOMAIN buckets) => buckets' = buckets
            /\ (~rl'.allowed /\ c \notin DOMAIN buckets) =>
                   /\ DOMAIN buckets' = DOMAIN buckets \cup {c}
                   /\ buckets'[c] = [tokens |-> requests * period, last_update |-> now + d]
                   /\ \A o \in DOMAIN buckets : buckets'[o] = buckets[o]
            /\ c \in DOMAIN buckets =>
                   (rl'.allowed <=>
                        buckets[c].tokens + (now - buckets[c].last_update) * requests
                            >= period)]_vars

\* a client is rejected some time after its last allowed request, the
\* refill not yet a whole token: its bucket still has the tokens and the
\* time that request left
C26_Witness ==
    /\ ~rl.allowed
    /\ rl.client \in DOMAIN buckets
    /\ audit[rl.client].granted >= 1
    /\ buckets[rl.client].last_update < now
    /\ buckets[rl.client].last_update > audit[rl.client].created
    /\ buckets[rl.client].tokens + (now - buckets[rl.client].last_update) * requests < period

\* the get_ticker call of connection c ends in this step
PollEnds(c) ==
    \/ ws'[c].polls = ws[c].polls + 1 /\ ended'.id = started'
    \/ ws[c].pc = "fetch" /\ ended'.id = ws[c].call

\* C27: on a WebSocket connection the first get_ticker failure ends the
\* stream: the handler sends one error message with the failure's detail and
\* status code (nothing, if the client is gone) and makes no further
\* get_ticker call and sends no further message; until then each get_ticker
\* call is followed by one ticker message and a wait of poll_interval before
\* the next call.
C27_FirstFailureEndsStream ==
    [][\A c \in Conns :
        /\ (PollEnds(c) /\ ended'.result \notin {"ok", "CancelledError"}) =>
              /\ ws'[c].pc = "done"
              /\ ws'[c].tickers = ws[c].tickers
              /\ \/ /\ sent' = [conn |-> c, kind |-> "error", error |-> ended'.result,
                                 status_code |-> IF ended'.result \in {"400", "404", "500", "503"}
                                                 THEN ended'.result ELSE "500",
                                 ticker |-> NoTicker]
                    /\ ws'[c].errors = 1
                 \/ sent' = NoMessage /\ ws'[c].errors = 0
        /\ ws[c].pc = "done" => (ws'[c] = ws[c] /\ sent'.conn # c)
        /\ ws'[c].errors = ws[c].errors + 1 <=> (sent'.conn = c /\ sent'.kind = "error")
        /\ ws'[c].tickers = ws[c].tickers + 1 <=> (sent'.conn = c /\ sent'.kind = "ticker")
        /\ (sent'.conn = c /\ sent'.kind = "ticker") =>
              /\ PollEnds(c) /\ ended'.result = "ok"
              /\ sent'.ticker = ended'.val
              /\ ws'[c].pc = "sleep"
              /\ ws'[c].wake = now' + ws'[c].interval
        /\ ws'[c].polls = ws[c].polls + 1 =>
              (ws[c].pc = "idle" \/ (ws[c].pc = "sleep" /\ now >= ws[c].wake))
        /\ ws'[c].polls = ws'[c].tickers + (IF ws'[c].pc \in {"fetch", "done"} THEN 1 ELSE 0)
        /\ ws'[c].errors <= 1]_vars

\* a connection's second get_ticker call, made after a ticker message and
\* the wait, failed in its fetch: the error message has just been sent and
\* the handler has ended
C27_Witness ==
    \E c \in Conns :
        /\ ws[c].pc = "done"
        /\ ws[c].polls = 2
        /\ ws[c].tickers = 1
        /\ ws[c].errors = 1
        /\ sent = [conn |-> c, kind |-> "error", error |-> "503", status_code |-> "503",
                   ticker |-> NoTicker]
        /\ ended.opened = 1

\* C28: the get_ticker calls of WebSocket connections never go through the
\* RateLimiter: a step of a connection leaves every bucket and the limiter's
\* settings as they were, makes no rate limit check, and never ends with or
\* sends a 429; each call a connection makes does one cache lookup, counted
\* as a hit exactly when the key has an entry of age <= ttl and then answered
\* without upstream, counted as a miss otherwise and then suspended in its
\* upstream fetch (or failed getting an exchange instance).
C28_PollingBypassesLimiter ==
    [][\A c \in Conns :
        /\ ws'[c] # ws[c] =>
              /\ buckets' = buckets
              /\ audit' = audit
              /\ requests' = requests /\ period' = period
              /\ rl' = NoCheck
              /\ ended'.result # "429"
              /\ sent'.status_code # "429"
        /\ ws'[c].polls = ws[c].polls + 1 =>
              \E sym \in Symbols :
                 LET key == CacheKey(ws'[c].ex, sym)
                     fresh == HasKey(cache, key) /\ now - Entry(cache, key).ts <= ttl
                     fetching == \E s \in Slots :
                                     /\ calls[s].pc = "free"
                                     /\ calls'[s] = [pc |-> "fetch_ticker", id |-> started + 1,
                                                     key |-> key, ex |-> ws'[c].ex, sym |-> sym]
                 IN  /\ gets' = gets + 1
                     /\ ended'.kind \in {"ws", "none"}
                     /\ IF fresh
                        THEN /\ hits' = hits + 1 /\ misses' = misses
                             /\ ~fetching /\ calls' = calls
                             /\ ended'.result = "ok" /\ ended'.opened = 0
                             /\ ended'.val = Entry(cache, key).v
                        ELSE /\ hits' = hits /\ misses' = misses + 1
                             /\ \/ /\ fetching /\ ended' = NoCall
                                   /\ ws'[c].pc = "fetch" /\ ws'[c].call = started + 1
                                \/ /\ ~fetching /\ ended'.opened = 0
                                   /\ ended'.result \in {"404", "500"}]_vars

\* a client's get_price spent the only token of its bucket and stored the
\* ticker; at the same time, when a further get_price of the client would be
\* rejected, a connection's call is answered from the cache and the ticker is
\* sent, the bucket as it was
C28_Witness ==
    \E h \in Hosts, c \in Conns :
        /\ ClientId(h) \in DOMAIN buckets
        /\ ~CheckAllowed(ClientId(h), 0)
        /\ ended.kind = "ws" /\ ended.result = "ok"
        /\ hits = 1 /\ misses = 1
        /\ sent.conn = c /\ sent.kind = "ticker"
        /\ ws[c].pc = "sleep" /\ ws[c].polls = 1

====
